---- MODULE Spec2Model ----
(***************************************************************************)
(* Model of src/app.py: a Streamlit script that is re-executed top to      *)
(* bottom on every interaction (a "render pass").  The state that survives *)
(* a pass is st.session_state, the widget values, the st.cache_data cache  *)
(* of load_data() and the files data.csv and 1.png .. 8.png; everything    *)
(* else is rebuilt by the pass.  One action models one section of the      *)
(* script.                                                                 *)
(*                                                                         *)
(* Numbers with one decimal (the commodity values, GBP billions) are kept  *)
(* as integer tenths: 8.7 is 87.  Location names are small integers whose  *)
(* order is the lexicographic order of the names (groupby sorts its keys). *)
(***************************************************************************)
EXTENDS Integers, Sequences, FiniteSets, TLC

\* ------------------------------------------------------------------------
\* Bounds of the model
\* ------------------------------------------------------------------------
MaxLoc == 3        \* distinct location keys in the enumerated small tables
MaxCount == 2      \* largest Count in the enumerated small tables
MaxRows == 3       \* longest enumerated small table
MaxWide == 22      \* most distinct locations in the wide tables
MaxMult == 3       \* number of different wide count patterns
MaxMissing == 1    \* most image files missing at the same time

\* ------------------------------------------------------------------------
\* Program constants
\* ------------------------------------------------------------------------
TopN == 20         \* location_totals.tail(20)
IllicitValue == 94 \* "Value": 9.4

Stations == <<"St Pancras International", "Kings Cross Station", "Camden Town Station">>

Categories == {"Noise", "Youths"}

\* required_images = [f"{i}.png" for i in range(1, 9)], by number
required_images == 1..8

import_data ==
  << [Commodity |-> "Mineral Fuels",         Value |-> 87, Type |-> "Legal"],
     [Commodity |-> "Mechanical Appliances", Value |-> 64, Type |-> "Legal"],
     [Commodity |-> "Electronic Equipment",  Value |-> 53, Type |-> "Legal"],
     [Commodity |-> "Precious Metals",       Value |-> 42, Type |-> "Legal"],
     [Commodity |-> "Motor Vehicles",        Value |-> 41, Type |-> "Legal"],
     [Commodity |-> "Pharmaceuticals",       Value |-> 20, Type |-> "Legal"],
     [Commodity |-> "Other Products",        Value |-> 16, Type |-> "Legal"],
     [Commodity |-> "Plastics",              Value |-> 15, Type |-> "Legal"],
     [Commodity |-> "Measuring Devices",     Value |-> 13, Type |-> "Legal"],
     [Commodity |-> "Knitwear",              Value |-> 13, Type |-> "Legal"] >>

new_row == << [Commodity |-> "Illicit Drugs", Value |-> IllicitValue, Type |-> "Illegal"] >>

\* ------------------------------------------------------------------------
\* Sequence helpers
\* ------------------------------------------------------------------------
Range(s) == { s[i] : i \in 1..Len(s) }

Min(a, b) == IF a <= b THEN a ELSE b

\* ------------------------------------------------------------------------
\* The commodity pipeline (section 7 of the script)
\* ------------------------------------------------------------------------
\* pd.concat([df, extra], ignore_index=True): a new frame, rows of df then
\* rows of extra.
concat_overwrite(df, extra) == [df EXCEPT ![Len(df)] = extra[1]]

concat(df, extra) == df \o extra

\* DataFrame.sort_values("Value", ascending=False): row i goes after every
\* row of larger Value and after the earlier rows of equal Value (on these
\* 10 or 11 rows the default sort keeps ties in their original order).
sort_values_desc(df) ==
  LET n == Len(df)
      Before(j, i) == df[j].Value > df[i].Value \/ (df[j].Value = df[i].Value /\ j < i)
      Rank(i) == Cardinality({ j \in 1..n : Before(j, i) }) + 1
  IN [ k \in 1..n |-> df[CHOOSE i \in 1..n : Rank(i) = k] ]

\* The frame handed to px.bar for a given value of the reveal flag.
df_imports_never(reveal) == sort_values_desc(import_data)

df_imports(reveal) ==
  sort_values_desc(IF reveal THEN concat(import_data, new_row) ELSE import_data)

\* ------------------------------------------------------------------------
\* The incident pipeline (section 8 of the script)
\* ------------------------------------------------------------------------
\* Sum of Count over the rows of df whose Location is loc.
RECURSIVE SumCount(_, _)
SumCount(df, loc) ==
  IF df = << >> THEN 0
  ELSE (IF Head(df).Location = loc THEN Head(df).Count ELSE 0) + SumCount(Tail(df), loc)

\* Count of the last row of df whose Location is loc (0 if none).
RECURSIVE LastCount(_, _)
LastCount(df, loc) ==
  IF df = << >> THEN 0
  ELSE IF df[Len(df)].Location = loc THEN df[Len(df)].Count
  ELSE LastCount(SubSeq(df, 1, Len(df) - 1), loc)

\* The keys of a set of integers in ascending order.
SortedKeys(S) ==
  [ k \in 1..Cardinality(S) |-> CHOOSE x \in S : Cardinality({ y \in S : y < x }) = k - 1 ]

\* df.groupby("Location")["Count"].sum(): one row per distinct Location,
\* keys in ascending order (groupby sorts its keys), Count summed.
groupby_last(df) ==
  LET keys == SortedKeys({ df[i].Location : i \in 1..Len(df) })
  IN [ k \in 1..Len(keys) |-> [Location |-> keys[k], Count |-> LastCount(df, keys[k])] ]

groupby_sum(df) ==
  LET keys == SortedKeys({ df[i].Location : i \in 1..Len(df) })
  IN [ k \in 1..Len(keys) |-> [Location |-> keys[k], Count |-> SumCount(df, keys[k])] ]

\* Series.sort_values(ascending=True): row i goes after every row of smaller
\* Count and after the earlier rows of equal Count.  The default kind is
\* quicksort, which numpy runs as an insertion sort on at most 16 elements,
\* so ties keep the order of the grouped series; the larger series of this
\* model (the wide tables) have pairwise distinct totals, where every sort
\* agrees.
sort_values_asc(s) ==
  LET n == Len(s)
      Before(j, i) == s[j].Count < s[i].Count \/ (s[j].Count = s[i].Count /\ j < i)
      Rank(i) == Cardinality({ j \in 1..n : Before(j, i) }) + 1
  IN [ k \in 1..n |-> s[CHOOSE i \in 1..n : Rank(i) = k] ]

\* Series.tail(n)
tail_short(s, n) == IF Len(s) <= 1 THEN << >> ELSE SubSeq(s, 2, Len(s))

tail_head(s, n) == IF Len(s) <= n THEN s ELSE SubSeq(s, 1, n)

tail(s, n) == IF Len(s) <= n THEN s ELSE SubSeq(s, Len(s) - n + 1, Len(s))

\* .index.tolist()
index_tolist(s) == [ i \in 1..Len(s) |-> s[i].Location ]

\* df[df["Location"].isin(locs)]
isin_filter(df, locs) == SelectSeq(df, LAMBDA r : r.Location \in Range(locs))

\* df["Count"].sum()
RECURSIVE count_sum(_)
count_sum(df) == IF df = << >> THEN 0 ELSE Head(df).Count + count_sum(Tail(df))

\* ------------------------------------------------------------------------
\* Incident tables
\* ------------------------------------------------------------------------
Rows == [Location : 1..MaxLoc, Category : { "Noise" }, Count : 0..MaxCount]

RECURSIVE SeqsUpTo(_, _)
SeqsUpTo(S, n) ==
  IF n = 0 THEN { << >> }
  ELSE LET shorter == SeqsUpTo(S, n - 1)
       IN shorter \cup { Append(t, r) : t \in { u \in shorter : Len(u) = n - 1 }, r \in S }

SmallTables == SeqsUpTo(Rows, MaxRows)

\* X:5, X:3, Y:10 with X = 1 and Y = 2
ScenarioA ==
  << [Location |-> 1, Category |-> "Noise",  Count |-> 5],
     [Location |-> 1, Category |-> "Youths", Count |-> 3],
     [Location |-> 2, Category |-> "Noise",  Count |-> 10] >>

\* Two locations with equal totals, the larger key first in the file.
TieTable ==
  << [Location |-> 2, Category |-> "Noise",  Count |-> 5],
     [Location |-> 1, Category |-> "Youths", Count |-> 5] >>

\* One row per location, n locations, pairwise distinct non-zero counts.
WideTable(n, m) ==
  [ i \in 1..n |-> [Location |-> i, Category |-> "Noise", Count |-> 1 + ((i * m) % 29)] ]

WideTables == { WideTable(n, m) : n \in (TopN - 1)..MaxWide, m \in 1..MaxMult }

SessionTables == { << >>, ScenarioA, TieTable }

AllTables == SmallTables \cup WideTables \cup SessionTables

\* What os.path.exists("data.csv") and pd.read_csv("data.csv") can find.
FileStates ==
  { [status |-> "missing", rows |-> << >>], [status |-> "unreadable", rows |-> << >>] }
    \cup { [status |-> "ok", rows |-> t] : t \in SessionTables }

\* Which of the image files os.path.exists() does not find.
ImageStates == { m \in SUBSET required_images : Cardinality(m) <= MaxMissing }

\* ------------------------------------------------------------------------
\* State
\* ------------------------------------------------------------------------
VARIABLES
  pc,               \* section of the script the current pass is at; "idle" between passes
  session_state,    \* st.session_state: a function on the keys present
  station_selector, \* value of the st.radio widget
  trigger,          \* what started the current pass; a button returns True in
                    \* the pass its own click started
  data_csv,         \* the file data.csv
  cache,            \* the st.cache_data entry of load_data()
  df_incidents,     \* the frame load_data() returned to this pass
  location_totals,  \* the pass's location_totals
  top_locations,    \* the pass's top_locations
  panels,           \* the panels this pass has rendered so far
  messages,         \* st.error / st.warning notices of this pass
  fig_imports,      \* rows of the commodity chart on screen (<< >>: none)
  fig_advanced,     \* the incident chart on screen (<< >>: none)
  fatal_seen,       \* a pass of this session has halted on the data file
  missing_images,   \* the image files that do not exist
  dot               \* the graphviz diagram this pass has drawn (<< >>: none)

vars == << pc, session_state, station_selector, trigger, data_csv, cache, df_incidents,
           location_totals, top_locations, panels, messages, fig_imports, fig_advanced,
           fatal_seen, missing_images, dot >>

Key == "reveal_drug_market"

AllPanels == { "title", "station", "market", "evidence", "evidence_6", "evidence_7",
               "commodity", "buttons", "incident", "incident_text", "cycle" }

NoCache == [hit |-> FALSE, rows |-> << >>]

\* dot.attr('node', ...) sets the attributes of the nodes created after it:
\* the five stages of the cycle get one and the same style, then the impact
\* node and the cost node each their own fill.
node_style == [ shape |-> "box", style |-> "filled, rounded", fillcolor |-> "#0e1b3c",
                fontcolor |-> "white", fontsize |-> 10 ]

Node(name, label, attrs) == [ name |-> name, label |-> label, attrs |-> attrs ]

Digraph ==
  << [ nodes |-> << Node("A", "1. Providers", node_style),
                    Node("B", "2. Distributors", node_style),
                    Node("C", "3. The Market (Hub)", node_style),
                    Node("D", "4. Buyers", node_style),
                    Node("E", "5. Reinforcement", node_style),
                    Node("Impact", "SOCIAL IMPACT: Rough Sleepers",
                         [node_style EXCEPT !.fillcolor = "#d92828"]),
                    Node("Cost", "$$ Costs",
                         [node_style EXCEPT !.fillcolor = "#ffcc00", !.fontcolor = "black"]) >>,
       edges |-> << << "A", "B" >>, << "B", "C" >>, << "C", "D" >>, << "D", "E" >>,
                    << "E", "A" >>, << "D", "Impact" >>, << "E", "Cost" >> >> ] >>

TypeOK ==
  /\ pc \in { "idle", "integrity", "load", "title", "station", "market", "evidence",
              "commodity", "buttons", "rerun", "incident", "cycle" }
  /\ DOMAIN session_state \subseteq { Key }
  /\ \A k \in DOMAIN session_state : session_state[k] \in BOOLEAN
  /\ station_selector \in Range(Stations)
  /\ trigger \in { "start", "refresh", "station", "reveal", "reset", "rerun" }
  /\ data_csv.status \in { "missing", "unreadable", "ok" }
  /\ cache.hit \in BOOLEAN
  /\ panels \subseteq AllPanels
  /\ messages \subseteq { "data_missing", "data_load_error", "no_data", "asset_warning",
                          "exception" }
  /\ Len(fig_imports) \in { 0, Len(import_data), Len(import_data) + 1 }
  /\ Len(fig_advanced) \in { 0, 1 }
  /\ fatal_seen \in BOOLEAN
  /\ missing_images \subseteq required_images
  /\ dot \in { << >>, Digraph }

\* ------------------------------------------------------------------------
\* Start and end of a pass
\* ------------------------------------------------------------------------
\* A new run of the script: lines 1-89 (imports, page config, CSS), with a
\* fresh namespace and an empty output tree; what is on screen stays until
\* the run replaces it or ends.
BeginPass ==
  /\ pc' = "integrity"
  /\ panels' = {}
  /\ messages' = {}
  /\ df_incidents' = << >>
  /\ location_totals' = << >>
  /\ top_locations' = << >>
  /\ dot' = << >>

\* st.stop(): the run ends here and the charts it did not render leave the
\* screen.
Stop ==
  /\ pc' = "idle"
  /\ fig_imports' = IF "commodity" \in panels THEN fig_imports ELSE << >>
  /\ fig_advanced' = IF "incident" \in panels THEN fig_advanced ELSE << >>
  /\ fatal_seen' = TRUE

Init ==
  /\ pc = "integrity"
  /\ session_state = << >>
  /\ station_selector = Stations[1]
  /\ trigger = "start"
  /\ data_csv \in FileStates
  /\ cache = NoCache
  /\ df_incidents = << >>
  /\ location_totals = << >>
  /\ top_locations = << >>
  /\ panels = {}
  /\ messages = {}
  /\ fig_imports = << >>
  /\ fig_advanced = << >>
  /\ fatal_seen = FALSE
  /\ missing_images \in ImageStates
  /\ dot = << >>

\* ------------------------------------------------------------------------
\* Section 3 of the script: integrity check and data loading
\* ------------------------------------------------------------------------
\* check_system_integrity(): st.error and st.stop() when data.csv does not
\* exist; otherwise st.warning when an image file does not exist, and on.
check_system_integrity_no_stop ==
  /\ pc = "integrity"
  /\ messages' = messages \cup (IF data_csv.status = "missing" THEN { "data_missing" } ELSE {})
                          \cup (IF missing_images # {} THEN { "asset_warning" } ELSE {})
  /\ pc' = "load"
  /\ UNCHANGED << session_state, station_selector, trigger, data_csv, cache,
                  df_incidents, location_totals, top_locations, panels,
                  fig_imports, fig_advanced, fatal_seen, missing_images,
                  dot >>

check_system_integrity ==
  /\ pc = "integrity"
  /\ IF data_csv.status = "missing"
     THEN /\ messages' = messages \cup { "data_missing" }
          /\ Stop
     ELSE /\ messages' = IF missing_images # {} THEN messages \cup { "asset_warning" }
                          ELSE messages
          /\ pc' = "load"
          /\ UNCHANGED << fig_imports, fig_advanced, fatal_seen >>
  /\ UNCHANGED << session_state, station_selector, trigger, data_csv, cache,
                  df_incidents, location_totals, top_locations, panels,
                  missing_images, dot >>

\* df_incidents = load_data(), under @st.cache_data: the cached frame when
\* there is one, else pd.read_csv; a read that raises is reported and the
\* run stopped (nothing is cached then).
load_data_uncached ==
  /\ pc = "load"
  /\ IF data_csv.status = "ok"
     THEN /\ df_incidents' = data_csv.rows
          /\ cache' = [hit |-> TRUE, rows |-> data_csv.rows]
          /\ pc' = "title"
          /\ UNCHANGED << messages, fig_imports, fig_advanced, fatal_seen >>
     ELSE /\ messages' = messages \cup { "data_load_error" }
          /\ Stop
          /\ UNCHANGED << cache, df_incidents >>
  /\ UNCHANGED << session_state, station_selector, trigger, data_csv, location_totals,
                  top_locations, panels, missing_images, dot >>

load_data ==
  /\ pc = "load"
  /\ IF cache.hit
     THEN /\ df_incidents' = cache.rows
          /\ pc' = "title"
          /\ UNCHANGED << cache, messages, fig_imports, fig_advanced, fatal_seen >>
     ELSE IF data_csv.status = "ok"
     THEN /\ df_incidents' = data_csv.rows
          /\ cache' = [hit |-> TRUE, rows |-> data_csv.rows]
          /\ pc' = "title"
          /\ UNCHANGED << messages, fig_imports, fig_advanced, fatal_seen >>
     ELSE /\ messages' = messages \cup { "data_load_error" }
          /\ Stop
          /\ UNCHANGED << cache, df_incidents >>
  /\ UNCHANGED << session_state, station_selector, trigger, data_csv, location_totals,
                  top_locations, panels, missing_images, dot >>

\* ------------------------------------------------------------------------
\* Static and station panels
\* ------------------------------------------------------------------------
\* st.image(path) with the path of a file that does not exist raises
\* (MediaFileStorageError: Error opening ...); the script catches nothing,
\* so the run ends there with the traceback on screen and the rest of the
\* script is not executed.
Raise ==
  /\ pc' = "idle"
  /\ messages' = messages \cup { "exception" }
  /\ fig_imports' = IF "commodity" \in panels THEN fig_imports ELSE << >>
  /\ fig_advanced' = IF "incident" \in panels THEN fig_advanced ELSE << >>

\* A section that renders its text and passes the image files imgs to
\* st.image by path.
Render(at, name, imgs, next) ==
  /\ pc = at
  /\ IF imgs \cap missing_images = {}
     THEN /\ panels' = panels \cup { name }
          /\ pc' = next
          /\ UNCHANGED << messages, fig_imports, fig_advanced >>
     ELSE /\ Raise
          /\ UNCHANGED panels
  /\ UNCHANGED << session_state, station_selector, trigger, data_csv, cache,
                  df_incidents, location_totals, top_locations, fatal_seen,
                  missing_images, dot >>

\* st.image("8.png")
TitleSlide == Render("title", "title", { 8 }, "station")

\* 1.png, 2.png or 3.png, by the station selected
station_image(station) == CHOOSE i \in 1..Len(Stations) : Stations[i] = station

\* st.image("5.png"), then the radio, which returns the widget's current
\* value; the detail column and its image are chosen by it.  Nothing in
\* this section touches st.session_state.
StationMap == Render("station", "station", { 5, station_image(station_selector) }, "market")

\* st.image("4.png")
MarketContext == Render("market", "market", { 4 }, "evidence")

\* load_and_resize_image(path): None (0 here) when the file does not exist.
\* The st.cache_resource entry is left out: a cached result changes which
\* picture is shown, never whether the section is rendered.
None == 0

load_and_resize_image(image_path) ==
  IF image_path \in missing_images THEN None ELSE image_path

\* 6.png and 7.png are loaded through load_and_resize_image and shown only
\* "if img_exchange:" / "if img_drugs:".
EvidenceChallenge ==
  /\ pc = "evidence"
  /\ LET img_exchange == load_and_resize_image(6)
         img_drugs == load_and_resize_image(7)
     IN panels' = panels \cup { "evidence" }
                         \cup (IF img_exchange # None THEN { "evidence_6" } ELSE {})
                         \cup (IF img_drugs # None THEN { "evidence_7" } ELSE {})
  /\ pc' = "commodity"
  /\ UNCHANGED << session_state, station_selector, trigger, data_csv, cache,
                  df_incidents, location_totals, top_locations, messages,
                  fig_imports, fig_advanced, fatal_seen, missing_images,
                  dot >>

\* ------------------------------------------------------------------------
\* Section 7: the commodity chart and the reveal / reset buttons
\* ------------------------------------------------------------------------
\* if 'reveal_drug_market' not in st.session_state: ... = False
InitAlways(ss) == [ k \in DOMAIN ss \cup { Key } |-> IF k = Key THEN FALSE ELSE ss[k] ]

InitIfAbsent(ss) ==
  IF Key \in DOMAIN ss THEN ss
  ELSE [ k \in DOMAIN ss \cup { Key } |-> IF k = Key THEN FALSE ELSE ss[k] ]

EconomicScaleAccumulate ==
  /\ pc = "commodity"
  /\ LET ss == InitIfAbsent(session_state)
         kept == IF fig_imports = << >> THEN import_data ELSE fig_imports
     IN /\ session_state' = ss
        /\ fig_imports' = IF ss[Key] THEN sort_values_desc(concat(kept, new_row))
                          ELSE sort_values_desc(kept)
  /\ panels' = panels \cup { "commodity" }
  /\ pc' = "buttons"
  /\ UNCHANGED << station_selector, trigger, data_csv, cache, df_incidents,
                  location_totals, top_locations, messages, fig_advanced,
                  fatal_seen, missing_images, dot >>

EconomicScale ==
  /\ pc = "commodity"
  /\ LET ss == InitIfAbsent(session_state)
     IN /\ session_state' = ss
        /\ fig_imports' = df_imports(ss[Key])
  /\ panels' = panels \cup { "commodity" }
  /\ pc' = "buttons"
  /\ UNCHANGED << station_selector, trigger, data_csv, cache, df_incidents,
                  location_totals, top_locations, messages, fig_advanced,
                  fatal_seen, missing_images, dot >>

\* The button of the current flag value is rendered; when it is the one that
\* was clicked, the flag is written and st.rerun() abandons the run.
RevealButtonsToggle ==
  /\ pc = "buttons"
  /\ panels' = panels \cup { "buttons" }
  /\ IF trigger \in { "reveal", "reset" }
     THEN /\ session_state' = [session_state EXCEPT ![Key] = ~session_state[Key]]
          /\ pc' = "rerun"
     ELSE /\ pc' = "incident"
          /\ UNCHANGED session_state
  /\ UNCHANGED << station_selector, trigger, data_csv, cache, df_incidents,
                  location_totals, top_locations, messages, fig_imports,
                  fig_advanced, fatal_seen, missing_images, dot >>

RevealButtonsNoRerun ==
  /\ pc = "buttons"
  /\ panels' = panels \cup { "buttons" }
  /\ pc' = "incident"
  /\ IF ~session_state[Key]
     THEN IF trigger = "reveal"
          THEN session_state' = [session_state EXCEPT ![Key] = TRUE]
          ELSE UNCHANGED session_state
     ELSE IF trigger = "reset"
          THEN session_state' = [session_state EXCEPT ![Key] = FALSE]
          ELSE UNCHANGED session_state
  /\ UNCHANGED << station_selector, trigger, data_csv, cache, df_incidents,
                  location_totals, top_locations, messages, fig_imports,
                  fig_advanced, fatal_seen, missing_images, dot >>

RevealButtonsRerunOnAnyClick ==
  /\ pc = "buttons"
  /\ panels' = panels \cup { "buttons" }
  /\ pc' = IF trigger \in { "reveal", "reset" } THEN "rerun" ELSE "incident"
  /\ IF ~session_state[Key] /\ trigger = "reveal"
     THEN session_state' = [session_state EXCEPT ![Key] = TRUE]
     ELSE IF session_state[Key] /\ trigger = "reset"
     THEN session_state' = [session_state EXCEPT ![Key] = FALSE]
     ELSE UNCHANGED session_state
  /\ UNCHANGED << station_selector, trigger, data_csv, cache, df_incidents,
                  location_totals, top_locations, messages, fig_imports,
                  fig_advanced, fatal_seen, missing_images, dot >>

RevealButtons ==
  /\ pc = "buttons"
  /\ panels' = panels \cup { "buttons" }
  /\ IF ~session_state[Key]
     THEN IF trigger = "reveal"
          THEN /\ session_state' = [session_state EXCEPT ![Key] = TRUE]
               /\ pc' = "rerun"
          ELSE /\ pc' = "incident"
               /\ UNCHANGED session_state
     ELSE IF trigger = "reset"
          THEN /\ session_state' = [session_state EXCEPT ![Key] = FALSE]
               /\ pc' = "rerun"
          ELSE /\ pc' = "incident"
               /\ UNCHANGED session_state
  /\ UNCHANGED << station_selector, trigger, data_csv, cache, df_incidents,
                  location_totals, top_locations, messages, fig_imports,
                  fig_advanced, fatal_seen, missing_images, dot >>

\* st.rerun(): the script starts again at once, with no button trigger set.
Rerun ==
  /\ pc = "rerun"
  /\ BeginPass
  /\ trigger' = "rerun"
  /\ UNCHANGED << session_state, station_selector, data_csv, cache, fig_imports,
                  fig_advanced, fatal_seen, missing_images >>

\* ------------------------------------------------------------------------
\* Section 8: incidents by location
\* ------------------------------------------------------------------------
\* DataFrame.empty
never_empty(df) == FALSE

is_empty(df) == df = << >>

IncidentAnalysis ==
  /\ pc = "incident"
  /\ IF ~is_empty(df_incidents)
     THEN LET totals == sort_values_asc(groupby_sum(df_incidents))
              top == index_tolist(tail(totals, TopN))
          IN /\ location_totals' = totals
             /\ top_locations' = top
             /\ fig_advanced' = << [ data |-> isin_filter(df_incidents, top),
                                     category_orders |-> top,
                                     total |-> count_sum(df_incidents) ] >>
          /\ panels' = panels \cup { "incident", "incident_text" }
          /\ UNCHANGED messages
     ELSE /\ messages' = messages \cup { "no_data" }
          /\ panels' = panels \cup { "incident_text" }
          /\ UNCHANGED << location_totals, top_locations, fig_advanced >>
  /\ pc' = "cycle"
  /\ UNCHANGED << session_state, station_selector, trigger, data_csv, cache,
                  df_incidents, fig_imports, fatal_seen, missing_images,
                  dot >>

\* ------------------------------------------------------------------------
\* Section 9: the cycle diagram, then the end of the script
\* ------------------------------------------------------------------------
\* The section has no widget and reads nothing of st.session_state: the same
\* graph is built and drawn by every pass.
CycleDiagram ==
  /\ pc = "cycle"
  /\ dot' = Digraph
  /\ panels' = panels \cup { "cycle" }
  /\ pc' = "idle"
  /\ fig_advanced' = IF "incident" \in panels THEN fig_advanced ELSE << >>
  /\ UNCHANGED << session_state, station_selector, trigger, data_csv, cache,
                  df_incidents, location_totals, top_locations, messages,
                  fig_imports, fatal_seen, missing_images >>

\* ------------------------------------------------------------------------
\* Interactions, accepted between passes
\* ------------------------------------------------------------------------
\* A click on one of the two buttons, possible once the button section is on
\* screen.  The click may be for the button the last pass did not render (a
\* second click queued while the first was being handled).
ClickButton ==
  /\ pc = "idle"
  /\ "buttons" \in panels
  /\ \E b \in { "reveal", "reset" } : trigger' = b
  /\ BeginPass
  /\ UNCHANGED << session_state, station_selector, data_csv, cache, fig_imports,
                  fig_advanced, fatal_seen, missing_images >>

SelectStation ==
  /\ pc = "idle"
  /\ \E s \in Range(Stations) : s # station_selector /\ station_selector' = s
  /\ trigger' = "station"
  /\ BeginPass
  /\ UNCHANGED << session_state, data_csv, cache, fig_imports, fig_advanced,
                  fatal_seen, missing_images >>

\* A rerun asked for without any widget change.
Refresh ==
  /\ pc = "idle"
  /\ trigger' = "refresh"
  /\ BeginPass
  /\ UNCHANGED << session_state, station_selector, data_csv, cache, fig_imports,
                  fig_advanced, fatal_seen, missing_images >>

\* data.csv is replaced, removed or damaged between two passes.
ChangeFile ==
  /\ pc = "idle"
  /\ \E f \in FileStates : f # data_csv /\ data_csv' = f
  /\ UNCHANGED << pc, session_state, station_selector, trigger, cache, df_incidents,
                  location_totals, top_locations, panels, messages, fig_imports,
                  fig_advanced, fatal_seen, missing_images, dot >>

\* An image file is removed or put back between two passes.
ChangeImages ==
  /\ pc = "idle"
  /\ \E m \in ImageStates : m # missing_images /\ missing_images' = m
  /\ UNCHANGED << pc, session_state, station_selector, trigger, data_csv,
                  cache, df_incidents, location_totals, top_locations,
                  panels, messages, fig_imports, fig_advanced, fatal_seen,
                  dot >>

\* ------------------------------------------------------------------------
\* Specifications
\* ------------------------------------------------------------------------
ScriptStep ==
  \/ check_system_integrity
  \/ load_data
  \/ TitleSlide
  \/ StationMap
  \/ MarketContext
  \/ EvidenceChallenge
  \/ EconomicScale
  \/ RevealButtons
  \/ Rerun
  \/ IncidentAnalysis
  \/ CycleDiagram

Next ==
  \/ check_system_integrity
  \/ load_data
  \/ TitleSlide
  \/ StationMap
  \/ MarketContext
  \/ EvidenceChallenge
  \/ EconomicScale
  \/ RevealButtons
  \/ Rerun
  \/ IncidentAnalysis
  \/ CycleDiagram
  \/ ClickButton
  \/ SelectStation
  \/ Refresh
  \/ ChangeFile
  \/ ChangeImages

Spec == Init /\ [][Next]_vars

\* A run of the script, once started, executes to its end.
FairSpec == Spec /\ WF_vars(ScriptStep)

\* The incident pipeline on its own: a first pass that has reached section 8
\* with the table t loaded, for every table of AllTables.
AggInit ==
  \E t \in AllTables :
    /\ pc = "incident"
    /\ session_state = InitIfAbsent(<< >>)
    /\ station_selector = Stations[1]
    /\ trigger = "start"
    /\ data_csv = [status |-> "ok", rows |-> t]
    /\ cache = [hit |-> TRUE, rows |-> t]
    /\ df_incidents = t
    /\ location_totals = << >>
    /\ top_locations = << >>
    /\ panels = { "title", "station", "market", "evidence", "evidence_6", "evidence_7",
                  "commodity", "buttons" }
    /\ messages = {}
    /\ fig_imports = df_imports(FALSE)
    /\ fig_advanced = << >>
    /\ fatal_seen = FALSE
    /\ missing_images = {}
    /\ dot = << >>

AggNext ==
  \/ IncidentAnalysis
  \/ CycleDiagram

AggSpec == AggInit /\ [][AggNext]_vars

\* ------------------------------------------------------------------------
\* Properties
\* ------------------------------------------------------------------------
Illicit == "Illicit Drugs"

ShowsIllicit(fig) == \E i \in 1..Len(fig) : fig[i].Commodity = Illicit

Revealed == Key \in DOMAIN session_state /\ session_state[Key]

FatalMessages == { "data_missing", "data_load_error" }

\* C1: between passes, the commodity sequence on screen contains the
\* 'Illicit Drugs' entry if and only if st.session_state['reveal_drug_market']
\* is true.
C1_IllicitIffRevealed ==
  (pc = "idle" /\ fig_imports # << >>) => (ShowsIllicit(fig_imports) <=> Revealed)

C1_Witness ==
  /\ pc = "idle"
  /\ Revealed
  /\ ShowsIllicit(fig_imports)
  /\ "cycle" \in panels

\* C2: the flag changes only false -> true on a reveal click handled while
\* it is false, and true -> false on a reset click handled while it is true;
\* both of these do change it; a reveal handled while it is true, or a reset
\* handled while it is false, changes neither the flag nor the notices.
C2_ToggleTransitions ==
  [][ (Key \in DOMAIN session_state /\ Key \in DOMAIN session_state') =>
        /\ (session_state'[Key] # session_state[Key]) =>
             /\ pc = "buttons"
             /\ \/ ~session_state[Key] /\ session_state'[Key] /\ trigger = "reveal"
                \/ session_state[Key] /\ ~session_state'[Key] /\ trigger = "reset"
        /\ (pc = "buttons" /\ ~session_state[Key] /\ trigger = "reveal") => session_state'[Key]
        /\ (pc = "buttons" /\ session_state[Key] /\ trigger = "reset") => ~session_state'[Key]
        /\ (pc = "buttons" /\ session_state[Key] /\ trigger = "reveal") =>
             (session_state' = session_state /\ messages' = messages)
        /\ (pc = "buttons" /\ ~session_state[Key] /\ trigger = "reset") =>
             (session_state' = session_state /\ messages' = messages)
    ]_vars

C2_Witness ==
  /\ pc = "incident"
  /\ trigger = "reveal"
  /\ Revealed
  /\ messages = {}

\* C3: the commodity sequence on screen holds every base entry unchanged and
\* exactly 10 Legal rows, holds 'Illicit Drugs' at most once and then with
\* value 9.4 and type Illegal, and between passes has length 10 when the
\* flag is false and 11 when it is true.
C3_CommoditySequence ==
  fig_imports # << >> =>
    /\ \A b \in 1..Len(import_data) : \E i \in 1..Len(fig_imports) : fig_imports[i] = import_data[b]
    /\ Cardinality({ i \in 1..Len(fig_imports) : fig_imports[i].Type = "Legal" }) = 10
    /\ Cardinality({ i \in 1..Len(fig_imports) : fig_imports[i].Commodity = Illicit }) <= 1
    /\ \A i \in 1..Len(fig_imports) :
         fig_imports[i].Commodity = Illicit =>
           (fig_imports[i].Value = 94 /\ fig_imports[i].Type = "Illegal")
    /\ pc = "idle" => Len(fig_imports) = (IF Revealed THEN 11 ELSE 10)

C3_Witness ==
  /\ pc = "idle"
  /\ Len(fig_imports) = 11
  /\ trigger = "rerun"

\* C4: a write of the flag is followed at once by st.rerun(); the rerun is
\* the next step (no interaction comes between); an interaction is accepted
\* only when the chart on screen agrees with the flag; and the rerun pass
\* runs to its end with the chart of the new flag value on screen.
C4_RerunBeforeInteraction ==
  /\ [][ /\ (Key \in DOMAIN session_state /\ session_state'[Key] # session_state[Key])
              => pc' = "rerun"
         /\ pc = "rerun" =>
              /\ pc' = "integrity"
              /\ trigger' = "rerun"
              /\ session_state' = session_state
              /\ station_selector' = station_selector
         /\ (pc = "idle" /\ pc' # "idle" /\ fig_imports # << >>) =>
              (ShowsIllicit(fig_imports) <=> Revealed)
       ]_vars
  /\ (pc = "rerun") ~>
       (/\ pc = "idle"
        /\ trigger = "rerun"
        /\ { "commodity", "cycle" } \subseteq panels
        /\ ShowsIllicit(fig_imports) <=> Revealed)

C4_Witness ==
  /\ pc = "idle"
  /\ trigger = "rerun"
  /\ ~Revealed
  /\ fig_imports = df_imports(FALSE)
  /\ "cycle" \in panels

\* C5: the flag, absent at the start of the session, is first set to false
\* by the commodity section; once present it stays present and is changed
\* only by the button section in a pass started by a reveal or reset click
\* (not by a pass started otherwise, nor by a station change).
C5_FlagFrame ==
  [][ /\ Key \in DOMAIN session_state => Key \in DOMAIN session_state'
      /\ (Key \notin DOMAIN session_state /\ session_state' # session_state) =>
           (pc = "commodity" /\ session_state'[Key] = FALSE)
      /\ (Key \in DOMAIN session_state /\ session_state' # session_state) =>
           (pc = "buttons" /\ trigger \in { "reveal", "reset" })
      /\ station_selector' # station_selector => session_state' = session_state
    ]_vars

C5_Witness ==
  /\ pc = "buttons"
  /\ trigger = "station"
  /\ Revealed

\* Locations of a table, the total of one, and the row where it first occurs.
LocationsOf(df) == { df[i].Location : i \in 1..Len(df) }

TotalOf(df, loc) == SumCount(df, loc)

FirstIndex(df, loc) == CHOOSE i \in 1..Len(df) :
                         /\ df[i].Location = loc
                         /\ \A j \in 1..(i - 1) : df[j].Location # loc

\* C6: when the incident chart is built, location_totals has exactly one row
\* per distinct location of the table, each the sum of that location's
\* counts, and the totals add up to the sum of all counts.
C6_AggregationSums ==
  "incident" \in panels =>
    /\ { location_totals[i].Location : i \in 1..Len(location_totals) } = LocationsOf(df_incidents)
    /\ Len(location_totals) = Cardinality(LocationsOf(df_incidents))
    /\ \A i \in 1..Len(location_totals) :
         location_totals[i].Count =
           count_sum(SelectSeq(df_incidents, LAMBDA r : r.Location = location_totals[i].Location))
    /\ count_sum(location_totals) = count_sum(df_incidents)
    /\ fig_advanced[1].total = count_sum(df_incidents)

C6_Witness ==
  /\ "incident" \in panels
  /\ \E i, j \in 1..Len(df_incidents) :
       /\ i < j
       /\ df_incidents[i].Location = df_incidents[j].Location
       /\ df_incidents[i].Category = df_incidents[j].Category
       /\ df_incidents[i].Count > 0
       /\ df_incidents[j].Count > 0
  /\ Cardinality(LocationsOf(df_incidents)) > 1

\* The part of C7 that does not depend on how ties are ordered: top_locations
\* is ascending by total, nothing left out has a larger total than something
\* kept, and the chart's category order is top_locations.
TopNLargestAscending ==
  /\ \A i, j \in 1..Len(top_locations) :
       i < j => TotalOf(df_incidents, top_locations[i]) <= TotalOf(df_incidents, top_locations[j])
  /\ \A out \in LocationsOf(df_incidents) \ Range(top_locations) :
       \A kept \in Range(top_locations) :
         TotalOf(df_incidents, out) <= TotalOf(df_incidents, kept)
  /\ Len(top_locations) = Min(TopN, Cardinality(LocationsOf(df_incidents)))
  /\ fig_advanced[1].category_orders = top_locations

\* C7 as claimed: top_locations holds the 20 largest totals in ascending
\* order, fixes the category order, and locations of equal total are in the
\* order in which they first occur in the table.
C7_TiesByInputOrder ==
  "incident" \in panels =>
    /\ TopNLargestAscending
    /\ \A i, j \in 1..Len(top_locations) :
         (i < j /\ TotalOf(df_incidents, top_locations[i]) = TotalOf(df_incidents, top_locations[j]))
           => FirstIndex(df_incidents, top_locations[i]) < FirstIndex(df_incidents, top_locations[j])

\* C7 as amended: top_locations holds the 20 largest totals in ascending
\* order, fixes the category order, and locations of equal total are in
\* ascending order of their location key, whatever the order of the rows.
C7_TiesByLocationKey ==
  "incident" \in panels =>
    /\ TopNLargestAscending
    /\ \A i, j \in 1..Len(top_locations) :
         (i < j /\ TotalOf(df_incidents, top_locations[i]) = TotalOf(df_incidents, top_locations[j]))
           => top_locations[i] < top_locations[j]

C7_Witness ==
  /\ "incident" \in panels
  /\ df_incidents = TieTable
  /\ top_locations = << 1, 2 >>

\* C8: top_locations has min(20, number of distinct locations) entries, all
\* different and all locations of the table; with fewer than 20 distinct
\* locations it holds every one of them; no error notice is raised.
C8_TopNLength ==
  "incident" \in panels =>
    /\ Len(top_locations) = Min(20, Cardinality(LocationsOf(df_incidents)))
    /\ Cardinality(Range(top_locations)) = Len(top_locations)
    /\ Range(top_locations) \subseteq LocationsOf(df_incidents)
    /\ Cardinality(LocationsOf(df_incidents)) < 20 =>
         Range(top_locations) = LocationsOf(df_incidents)
    /\ messages = {}

C8_Witness ==
  /\ "incident" \in panels
  /\ Cardinality(LocationsOf(df_incidents)) = 3
  /\ Len(top_locations) = 3

\* C9: a pass whose loaded table has no rows gives the "no data" notice and
\* no incident chart, raises no error notice, renders the text after the
\* incident panel, and ends with the cycle diagram rendered.
C9_NoData ==
  (pc \in { "cycle", "idle" } /\ "buttons" \in panels /\ df_incidents = << >>) =>
    /\ "no_data" \in messages
    /\ messages \cap FatalMessages = {}
    /\ "incident" \notin panels
    /\ "incident_text" \in panels
    /\ pc = "idle" => ("cycle" \in panels /\ fig_advanced = << >>)

C9_Witness ==
  /\ pc = "idle"
  /\ df_incidents = << >>
  /\ "no_data" \in messages
  /\ "cycle" \in panels

\* C10 as claimed: once a pass of the session has halted on the data file,
\* no panel is rendered, in that pass or in any later one.
C10_HaltsForSession == fatal_seen => panels = {}

\* C10 as amended: a pass that finds data.csv missing, or that has no cached
\* table and cannot read data.csv, reports it and ends at once with no panel
\* and no chart on screen; a pass never carries a fatal notice together with
\* a rendered panel.
C10_HaltsThePass ==
  /\ [](messages \cap FatalMessages # {} =>
          (pc = "idle" /\ panels = {} /\ fig_imports = << >> /\ fig_advanced = << >>))
  /\ [][ /\ (pc = "integrity" /\ data_csv.status = "missing") =>
              ("data_missing" \in messages' /\ pc' = "idle" /\ fatal_seen')
         /\ (pc = "load" /\ ~cache.hit /\ data_csv.status # "ok") =>
              ("data_load_error" \in messages' /\ pc' = "idle" /\ fatal_seen')
       ]_vars

C10_Witness ==
  /\ pc = "idle"
  /\ "data_missing" \in messages
  /\ panels = {}
  /\ fatal_seen
  /\ Key \in DOMAIN session_state

ImageSections == { "title", "station", "market", "evidence" }

\* C11: a pass that finds an image file missing gives the asset warning and
\* goes on; every section that shows images renders its panel (without the
\* missing picture) and hands on to the next section: a missing image never
\* ends the pass.
C11_MissingImageNeverStops ==
  [][ /\ (pc = "integrity" /\ data_csv.status # "missing" /\ missing_images # {}) =>
           ("asset_warning" \in messages' /\ pc' = "load")
      /\ \A sec \in ImageSections :
           pc = sec => (sec \in panels' /\ pc' # "idle" /\ "exception" \notin messages')
    ]_vars

\* The cycle-stage selections the claim speaks of, and its rule of emphasis.
StageNames == << "Stage1", "Stage2", "Stage3", "Stage4", "Stage5" >>

Selections == Range(StageNames) \cup { "FullCycle" }

Active(id, selection) == selection = StageNames[id] \/ selection = "FullCycle"

\* How stage node id is drawn in the diagram on screen.
Emphasis(id) == dot[1].nodes[id].attrs

PassEnds == pc \notin { "idle", "rerun" } /\ pc' \in { "idle", "rerun" }

ErrorMessages == FatalMessages \cup { "exception" }

\* C13 as claimed: a pass never ends before the cycle diagram is rendered
\* unless it is halted by an error (the fatal data errors; an uncaught
\* exception is counted with them here); the pass that handles a reveal or
\* reset click goes on from the buttons to the panels after them.
C13_NoCancellation ==
  [][ /\ PassEnds => ("cycle" \in panels' \/ messages' \cap ErrorMessages # {})
      /\ pc = "buttons" => pc' = "incident"
    ]_vars

\* C13 as amended: a pass ends in one of four ways: after the cycle diagram;
\* halted by a fatal data error in the integrity check or the load; stopped
\* by the exception of an image section; or abandoned by st.rerun() at the
\* buttons, which happens exactly when the pass handles a click that changes
\* the flag.  The abandoned pass has rendered neither the incident panel nor
\* the cycle diagram; a fresh pass starts at once, and that pass is not
\* abandoned at the buttons.
C13_EndsOfAPass ==
  [][ /\ PassEnds =>
           \/ pc = "cycle" /\ pc' = "idle" /\ "cycle" \in panels'
           \/ pc \in { "integrity", "load" } /\ pc' = "idle" /\ messages' \cap FatalMessages # {}
           \/ pc \in ImageSections /\ pc' = "idle" /\ "exception" \in messages'
           \/ /\ pc = "buttons" /\ pc' = "rerun"
              /\ trigger \in { "reveal", "reset" }
              /\ session_state'[Key] # session_state[Key]
              /\ panels' \cap { "incident", "incident_text", "cycle" } = {}
      /\ (pc = "buttons" /\ session_state' = session_state) => pc' = "incident"
      /\ pc = "rerun" => (pc' = "integrity" /\ trigger' = "rerun" /\ panels' = {})
      /\ (pc = "buttons" /\ trigger = "rerun") => pc' = "incident"
    ]_vars

C13_Witness ==
  /\ pc = "rerun"
  /\ trigger = "reset"
  /\ ~Revealed
  /\ ShowsIllicit(fig_imports)
  /\ { "commodity", "buttons" } \subseteq panels
  /\ "cycle" \notin panels
  /\ dot = << >>

\* C14 as claimed: once a pass has loaded the table, the cached table never
\* changes, every later pass gets past the integrity check and the load with
\* the same rows, and no fatal data error is raised any more, whatever
\* happens to data.csv.
C14_LoadedOnceForSession ==
  [][ cache.hit =>
        /\ cache' = cache
        /\ pc = "integrity" => pc' = "load"
        /\ pc = "load" => (pc' = "title" /\ df_incidents' = cache.rows)
        /\ messages' \cap FatalMessages = {}
    ]_vars

\* C14 as amended: the table is cached by the first load that can read the
\* file and the cached table never changes; every later pass that reaches
\* the load gets the cached rows, whatever data.csv holds by then, and a
\* load error cannot occur any more.  But the integrity check is made in
\* every pass: once the table is cached a pass halts on the data if and only
\* if data.csv does not exist at its start.
C14_CachedRowsImmutable ==
  [][ /\ cache.hit =>
           /\ cache' = cache
           /\ pc = "load" => (pc' = "title" /\ df_incidents' = cache.rows)
           /\ "data_load_error" \notin messages'
           /\ pc = "integrity" =>
                IF data_csv.status = "missing"
                THEN pc' = "idle" /\ "data_missing" \in messages' /\ panels' = {}
                ELSE pc' = "load" /\ messages' \cap FatalMessages = {}
      /\ (~cache.hit /\ cache'.hit) =>
           (pc = "load" /\ data_csv.status = "ok" /\ cache'.rows = data_csv.rows)
      /\ df_incidents' # df_incidents => df_incidents' \in { << >>, cache'.rows }
    ]_vars

C14_Witness ==
  /\ pc = "incident"
  /\ cache.hit
  /\ df_incidents = ScenarioA
  /\ data_csv = [status |-> "ok", rows |-> TieTable]
  /\ fatal_seen

\* C15: a pass that draws the commodity chart under the flag value of the
\* chart already on screen draws the same ordered sequence again; a pass that
\* draws the incident chart draws the chart already on screen again, with
\* the same ordered top_locations; a pass started without a button click
\* leaves the flag as it is (the first pass only installs the default); and
\* nothing grows: the sequence holds the 10 base rows and at most one extra
\* row, and the cached table stays as loaded.
C15_IdempotentPass ==
  [][ /\ (pc = "commodity" /\ fig_imports # << >> /\ (ShowsIllicit(fig_imports) <=> Revealed))
           => fig_imports' = fig_imports
      /\ (pc = "incident" /\ fig_advanced # << >> /\ fig_advanced' # << >>) =>
           (fig_advanced' = fig_advanced /\ top_locations' = fig_advanced[1].category_orders)
      /\ trigger \notin { "reveal", "reset" } =>
           /\ Revealed' <=> Revealed
           /\ Key \in DOMAIN session_state => session_state' = session_state
      /\ Len(fig_imports') <= Len(import_data) + 1
      /\ cache.hit => cache' = cache
    ]_vars

C15_Witness ==
  /\ pc = "cycle"
  /\ trigger = "refresh"
  /\ Revealed
  /\ Len(fig_imports) = Len(import_data) + 1
  /\ "incident" \in panels
  /\ Len(top_locations) > 1

====
